---- MODULE Spec2Model ----
(***************************************************************************)
(* vendor_cleaning_script.py: one linear ETL pass.  A single SQL query     *)
(* aggregates vendor_invoice, purchases, purchase_prices and sales into a  *)
(* data frame, the frame is cleaned and four derived columns are added,    *)
(* and the frame replaces the table vendor_cleaned.                        *)
(*                                                                         *)
(* Tables are bags of rows (a relation has no row order); the data frame   *)
(* is a sequence of rows in the order the query's ORDER BY delivers.       *)
(* Floating-point cells are exact rationals plus NaN and +-infinity.       *)
(***************************************************************************)
EXTENDS Integers, Sequences, FiniteSets, Bags, TLC

\* ------------------------------------------------------------------ bounds
\* Total number of rows in the four source tables together.
MaxRows == 4
\* Number of successful runs of the script against the same source tables.
MaxRuns == 2

\* ------------------------------------------------------- source row domains
\* VendorName is a sequence of characters, so that str.strip() can act on it.
VendorNameOf(v) == IF v = 1 THEN <<"X">> ELSE <<"Y">>

InvoiceRows == [VendorNumber : {1, 2}, Freight : {3}]

\* Every vendor buys both brands, at a price of 0 (free stock) or 5; vendor 1
\* also appears under a name with surrounding blanks and with a second price,
\* vendor 2 also with a purchase of quantity 0.
PurchaseRows ==
    {[VendorNumber |-> v, VendorName |-> VendorNameOf(v), Brand |-> b,
      Description |-> "d", PurchasePrice |-> pr, Quantity |-> 2, Dollars |-> 10]
        : v \in {1, 2}, b \in {"A", "B"}, pr \in {0, 5}}
    \cup
    {[VendorNumber |-> 1, VendorName |-> <<" ", "X", " ">>, Brand |-> "A",
      Description |-> "d", PurchasePrice |-> 5, Quantity |-> 2, Dollars |-> 10],
     [VendorNumber |-> 1, VendorName |-> <<"X">>, Brand |-> "A",
      Description |-> "d", PurchasePrice |-> 6, Quantity |-> 2, Dollars |-> 12],
     [VendorNumber |-> 2, VendorName |-> <<"Y">>, Brand |-> "B",
      Description |-> "d", PurchasePrice |-> 5, Quantity |-> 0, Dollars |-> 0]}

\* Volume arrives as text; "x" is a value astype('float64') cannot convert.
PriceRows ==
    {[Brand |-> "A", Volume |-> "750", Price |-> 12],
     [Brand |-> "A", Volume |-> "1000", Price |-> 12],
     [Brand |-> "B", Volume |-> "750", Price |-> 12],
     [Brand |-> "B", Volume |-> "x", Price |-> 12]}

SaleRows == [VendorNo : {1, 2}, Brand : {"A", "B"}, SalesQuantity : {1},
             SalesPrice : {4}, SalesDollars : {8}, ExciseTax : {1}]

\* What the destination table holds before the first run: one stale row.
StaleRow == [VendorNumber |-> 9, Brand |-> "stale"]
PriorTable == SetToBag({StaleRow})

\* ------------------------------------------------------------- bag helpers
RECURSIVE BagsOfSize(_, _)
BagsOfSize(S, n) ==
    IF n = 0 THEN {EmptyBag}
    ELSE {b (+) SetToBag({x}) : b \in BagsOfSize(S, n - 1), x \in S}

RECURSIVE SumFn(_)
SumFn(f) ==
    IF DOMAIN f = {} THEN 0
    ELSE LET x == CHOOSE y \in DOMAIN f : TRUE
         IN  f[x] + SumFn([y \in DOMAIN f \ {x} |-> f[y]])

RECURSIVE BagOfSeq(_)
BagOfSeq(s) ==
    IF s = <<>> THEN EmptyBag ELSE SetToBag({Head(s)}) (+) BagOfSeq(Tail(s))

RECURSIVE Perms(_)
Perms(S) ==
    IF S = {} THEN {<<>>}
    ELSE UNION {{<<x>> \o p : p \in Perms(S \ {x})} : x \in S}

\* ---------------------------------------------------------- float64 cells
NaN == [k |-> "nan", n |-> 0, d |-> 1]
PosInf == [k |-> "inf", n |-> 1, d |-> 1]
NegInf == [k |-> "inf", n |-> -1, d |-> 1]
Null == [k |-> "null", n |-> 0, d |-> 1]

Abs(i) == IF i < 0 THEN -i ELSE i

RECURSIVE Gcd(_, _)
Gcd(a, b) == IF b = 0 THEN a ELSE Gcd(b, a % b)

\* the rational n/d, d > 0, in lowest terms
Frac(n, d) ==
    LET g == Gcd(Abs(n), d)
    IN  [k |-> "fin", n |-> n \div g, d |-> d \div g]

Fin(n) == Frac(n, 1)

IsZero(a) == a.k = "fin" /\ a.n = 0

FSub(a, b) ==
    IF a.k = "nan" \/ b.k = "nan" THEN NaN
    ELSE IF a.k = "inf" /\ b.k = "inf" THEN (IF a.n = b.n THEN NaN ELSE a)
    ELSE IF a.k = "inf" THEN a
    ELSE IF b.k = "inf" THEN (IF b.n = 1 THEN NegInf ELSE PosInf)
    ELSE Frac(a.n * b.d - b.n * a.d, a.d * b.d)

\* IEEE 754 division as numpy performs it: x/0 is +-inf, 0/0 is NaN; no error.
FDiv(a, b) ==
    IF a.k = "nan" \/ b.k = "nan" THEN NaN
    ELSE IF a.k = "inf" /\ b.k = "inf" THEN NaN
    ELSE IF a.k = "inf" THEN (IF b.n < 0 THEN (IF a.n = 1 THEN NegInf ELSE PosInf) ELSE a)
    ELSE IF b.k = "inf" THEN Fin(0)
    ELSE IF b.n = 0 THEN (IF a.n = 0 THEN NaN ELSE IF a.n > 0 THEN PosInf ELSE NegInf)
    ELSE IF b.n > 0 THEN Frac(a.n * b.d, a.d * b.n)
    ELSE Frac(-(a.n * b.d), a.d * (-b.n))

FMul(a, c) ==
    IF a.k = "fin" THEN Frac(a.n * c, a.d) ELSE a

\* ------------------------------------------------------------ the SQL query
\* WITH Freight_summary: one row per VendorNumber of vendor_invoice.
Freight_summary(vi) ==
    {[VendorNumber |-> v,
      freightcost |-> Fin(SumFn([r \in {x \in BagToSet(vi) : x.VendorNumber = v}
                                   |-> vi[r] * r.Freight]))]
       : v \in {r.VendorNumber : r \in BagToSet(vi)}}

\* ON p."Brand" = pp."Brand"
JoinOnBrand(p, pp) == p.Brand = pp.Brand

\* the filter written with >= in place of >
WherePurchasePrice_NonNegative(p) == p.PurchasePrice >= 0

\* WHERE p."PurchasePrice" > 0
WherePurchasePrice(p) == p.PurchasePrice > 0

\* GROUP BY p.VendorNumber, p.VendorName, p.Brand, p.Description,
\*          p.PurchasePrice, pp.Volume, pp.Price
PurchaseGroupKey(p, pp) ==
    [VendorNumber |-> p.VendorNumber, VendorName |-> p.VendorName,
     Brand |-> p.Brand, Description |-> p.Description,
     PurchasePrice |-> p.PurchasePrice, Volume |-> pp.Volume,
     actualprice |-> pp.Price]

\* SUM(p."Quantity") written for both totals
Purchase_summary_QuantityTwice(P, PP) ==
    LET joined == {j \in BagToSet(P) \X BagToSet(PP) :
                      JoinOnBrand(j[1], j[2]) /\ WherePurchasePrice(j[1])}
        keys == {PurchaseGroupKey(j[1], j[2]) : j \in joined}
        grp(key) == {j \in joined : PurchaseGroupKey(j[1], j[2]) = key}
    IN  {[key |-> key,
          totalpurchasequantity |->
              Fin(SumFn([j \in grp(key) |-> P[j[1]] * PP[j[2]] * j[1].Quantity])),
          totalpurchasedollars |->
              Fin(SumFn([j \in grp(key) |-> P[j[1]] * PP[j[2]] * j[1].Quantity]))]
           : key \in keys}

\* WITH Purchase_summary: purchases JOIN purchase_prices, filtered, grouped.
\* A pair <<p, pp>> of row kinds stands for P[p] * PP[pp] joined rows.
Purchase_summary(P, PP) ==
    LET joined == {j \in BagToSet(P) \X BagToSet(PP) :
                      JoinOnBrand(j[1], j[2]) /\ WherePurchasePrice(j[1])}
        keys == {PurchaseGroupKey(j[1], j[2]) : j \in joined}
        grp(key) == {j \in joined : PurchaseGroupKey(j[1], j[2]) = key}
    IN  {[key |-> key,
          totalpurchasequantity |->
              Fin(SumFn([j \in grp(key) |-> P[j[1]] * PP[j[2]] * j[1].Quantity])),
          totalpurchasedollars |->
              Fin(SumFn([j \in grp(key) |-> P[j[1]] * PP[j[2]] * j[1].Dollars]))]
           : key \in keys}

\* GROUP BY "VendorNo", "Brand"
SalesGroupKey(s) == [VendorNo |-> s.VendorNo, Brand |-> s.Brand]

\* WITH sales_summary: one row per (VendorNo, Brand) of sales.
sales_summary(S) ==
    LET grp(key) == {s \in BagToSet(S) : SalesGroupKey(s) = key}
    IN  {[VendorNo |-> key.VendorNo, Brand |-> key.Brand,
          totalsalesquantity |-> Fin(SumFn([s \in grp(key) |-> S[s] * s.SalesQuantity])),
          totalsalesprice |-> Fin(SumFn([s \in grp(key) |-> S[s] * s.SalesPrice])),
          totalsalesdollars |-> Fin(SumFn([s \in grp(key) |-> S[s] * s.SalesDollars])),
          totalexcisetax |-> Fin(SumFn([s \in grp(key) |-> S[s] * s.ExciseTax]))]
           : key \in {SalesGroupKey(s) : s \in BagToSet(S)}}

\* The row a LEFT JOIN delivers for the right side when nothing matches:
\* every column NULL, which pandas reads as NaN.
NoSales == [totalsalesquantity |-> NaN, totalsalesprice |-> NaN,
            totalsalesdollars |-> NaN, totalexcisetax |-> NaN]
NoFreight == [freightcost |-> NaN]

\* ON ps."VendorNumber" = ss."VendorNo" AND ps."Brand" = ss."Brand"
JoinOnSales(ps, ss) == ps.key.VendorNumber = ss.VendorNo /\ ps.key.Brand = ss.Brand

\* the join condition compares a column with itself
JoinOnFreight_AnyVendor(ps, cs) == ps.key.VendorNumber = ps.key.VendorNumber

\* ON ps."VendorNumber" = cs."VendorNumber"
JoinOnFreight(ps, cs) == ps.key.VendorNumber = cs.VendorNumber

\* LEFT JOIN sales_summary: the matching rows, or one all-NULL row
LeftJoinSales(ps, ss) ==
    IF \E r \in ss : JoinOnSales(ps, r) THEN {r \in ss : JoinOnSales(ps, r)}
    ELSE {NoSales}

\* LEFT JOIN Freight_summary: the matching rows, or one all-NULL row
LeftJoinFreight(ps, cs) ==
    IF \E r \in cs : JoinOnFreight(ps, r) THEN {r \in cs : JoinOnFreight(ps, r)}
    ELSE {NoFreight}

\* The SELECT list of vendor_table.
VendorRow(ps, ss, cs) ==
    [VendorNumber |-> ps.key.VendorNumber, VendorName |-> ps.key.VendorName,
     Brand |-> ps.key.Brand, Description |-> ps.key.Description,
     PurchasePrice |-> ps.key.PurchasePrice, actualprice |-> ps.key.actualprice,
     Volume |-> ps.key.Volume,
     totalpurchasedollars |-> ps.totalpurchasedollars,
     totalpurchasequantity |-> ps.totalpurchasequantity,
     freightcost |-> cs.freightcost,
     totalsalesprice |-> ss.totalsalesprice,
     totalsalesquantity |-> ss.totalsalesquantity,
     totalsalesdollars |-> ss.totalsalesdollars,
     totalexcisetax |-> ss.totalexcisetax]

\* JOIN sales_summary written in place of LEFT JOIN sales_summary
vendor_table_InnerJoinSales(vi, P, PP, S) ==
    UNION {UNION {{VendorRow(ps, ss, cs)
                     : cs \in LeftJoinFreight(ps, Freight_summary(vi))}
                  : ss \in {r \in sales_summary(S) : JoinOnSales(ps, r)}}
           : ps \in Purchase_summary(P, PP)}

\* WITH vendor_table: Purchase_summary LEFT JOIN sales_summary LEFT JOIN
\* Freight_summary, one result row per matching triple.
vendor_table(vi, P, PP, S) ==
    UNION {UNION {{VendorRow(ps, ss, cs)
                     : cs \in LeftJoinFreight(ps, Freight_summary(vi))}
                  : ss \in LeftJoinSales(ps, sales_summary(S))}
           : ps \in Purchase_summary(P, PP)}

\* ORDER BY ps.totalpurchasedollars DESC: any order of the rows in which the
\* totals do not increase; the order among equal totals is not determined.
OrderByTotalPurchaseDollarsDesc(rows) ==
    {s \in Perms(rows) :
        \A i \in 1..(Len(s) - 1) :
            s[i].totalpurchasedollars.n >= s[i + 1].totalpurchasedollars.n}

\* ------------------------------------------------------- the pandas cleaning
\* The texts float() accepts, with their values.
NumericText == {"750", "1000"}
ToFloat64(text) == CASE text = "750" -> Fin(750) [] text = "1000" -> Fin(1000)

\* df['Volume'].astype('float64') raises ValueError on a text that is no number.
AstypeRaises(frame) == \E i \in 1..Len(frame) : frame[i].Volume \notin NumericText

AstypeVolume(row) == [row EXCEPT !.Volume = ToFloat64(@)]

\* fillna(0) without inplace=True: the frame keeps its NaN cells
Fill0_NotInPlace(cell) == cell

\* fillna(0) on one cell
Fill0(cell) == IF cell.k = "nan" THEN Fin(0) ELSE cell

\* df.fillna(0, inplace=True), on the columns that hold floats
FillnaRow(row) ==
    [row EXCEPT !.Volume = Fill0(@),
                !.totalpurchasedollars = Fill0(@),
                !.totalpurchasequantity = Fill0(@),
                !.freightcost = Fill0(@),
                !.totalsalesprice = Fill0(@),
                !.totalsalesquantity = Fill0(@),
                !.totalsalesdollars = Fill0(@),
                !.totalexcisetax = Fill0(@)]

\* str.strip(): drop leading and trailing whitespace
RECURSIVE LStrip(_)
LStrip(s) == IF s # <<>> /\ Head(s) = " " THEN LStrip(Tail(s)) ELSE s

RECURSIVE RStrip(_)
RStrip(s) ==
    IF s # <<>> /\ s[Len(s)] = " " THEN RStrip(SubSeq(s, 1, Len(s) - 1)) ELSE s

Strip(s) == RStrip(LStrip(s))

StripRow(row) == [row EXCEPT !.VendorName = Strip(@)]

\* the operands of the subtraction exchanged
GrossProfit_Swapped(row) == FSub(row.totalpurchasedollars, row.totalsalesdollars)

\* df['GrossProfit'] = df['totalsalesdollars'] - df['totalpurchasedollars']
GrossProfit(row) == FSub(row.totalsalesdollars, row.totalpurchasedollars)

\* df['ProfitMargin'] = (df['GrossProfit']/df['totalsalesdollars'])*100
ProfitMargin(row) == FMul(FDiv(GrossProfit(row), row.totalsalesdollars), 100)

\* df['StockTurnover'] = df['totalsalesquantity']/df['totalpurchasequantity']
StockTurnover(row) == FDiv(row.totalsalesquantity, row.totalpurchasequantity)

\* df['SalesToPurchaseRatio'] = df['totalsalesdollars']/df['totalpurchasedollars']
SalesToPurchaseRatio(row) == FDiv(row.totalsalesdollars, row.totalpurchasedollars)

AddColumnsRow(row) ==
    [c \in DOMAIN row \cup {"GrossProfit", "ProfitMargin", "StockTurnover",
                            "SalesToPurchaseRatio"} |->
        CASE c = "GrossProfit" -> GrossProfit(row)
          [] c = "ProfitMargin" -> ProfitMargin(row)
          [] c = "StockTurnover" -> StockTurnover(row)
          [] c = "SalesToPurchaseRatio" -> SalesToPurchaseRatio(row)
          [] OTHER -> row[c]]

\* ---------------------------------------------------------------- to_sql
FloatColumns == {"Volume", "totalpurchasedollars", "totalpurchasequantity",
                 "freightcost", "totalsalesprice", "totalsalesquantity",
                 "totalsalesdollars", "totalexcisetax", "GrossProfit",
                 "ProfitMargin", "StockTurnover", "SalesToPurchaseRatio"}

\* pandas writes a NaN cell as NULL; +-inf is written as it is.
SqlCell(cell) == IF cell.k = "nan" THEN Null ELSE cell

SqlRow(row) ==
    [c \in DOMAIN row |-> IF c \in FloatColumns THEN SqlCell(row[c]) ELSE row[c]]

\* if_exists="append": the frame's rows are added to the old table
ReplaceTable_Append(old, frame) == old (+) BagOfSeq([i \in 1..Len(frame) |-> SqlRow(frame[i])])

\* if_exists="replace": the old table is dropped, the frame's rows inserted.
ReplaceTable(old, frame) == BagOfSeq([i \in 1..Len(frame) |-> SqlRow(frame[i])])

SuccessMessage == "Cleaned data uploaded to PostgreSQL table: vendor_cleaned"

\* ------------------------------------------------------------------- state
VARIABLES
    vendor_invoice,   \* bag of InvoiceRows
    purchases,        \* bag of PurchaseRows
    purchase_prices,  \* bag of PriceRows
    sales,            \* bag of SaleRows
    vendor_cleaned,   \* the destination table, a bag of rows
    df,               \* the data frame, a sequence of rows
    pc,               \* the statement the script is at
    err,              \* the exception that ended the run, or "none"
    stdout            \* the lines printed so far

sources == <<vendor_invoice, purchases, purchase_prices, sales>>
vars == <<vendor_invoice, purchases, purchase_prices, sales, vendor_cleaned,
          df, pc, err, stdout>>

Init ==
    /\ \E ni \in 0..MaxRows : \E np \in 0..(MaxRows - ni) :
       \E nr \in 0..(MaxRows - ni - np) : \E ns \in 0..(MaxRows - ni - np - nr) :
          /\ vendor_invoice \in BagsOfSize(InvoiceRows, ni)
          /\ purchases \in BagsOfSize(PurchaseRows, np)
          /\ purchase_prices \in BagsOfSize(PriceRows, nr)
          /\ sales \in BagsOfSize(SaleRows, ns)
    /\ vendor_cleaned = PriorTable
    /\ df = <<>>
    /\ pc = "read_sql"
    /\ err = "none"
    /\ stdout = <<>>

Raise(e) ==
    /\ pc' = "failed"
    /\ err' = e
    /\ UNCHANGED <<sources, vendor_cleaned, df, stdout>>

\* line 67: df = pd.read_sql(query, engine)
ReadSql ==
    /\ pc = "read_sql"
    /\ df' \in OrderByTotalPurchaseDollarsDesc(
                  vendor_table(vendor_invoice, purchases, purchase_prices, sales))
    /\ pc' = "astype"
    /\ UNCHANGED <<sources, vendor_cleaned, err, stdout>>

\* line 67, when the connection or the query fails
ReadSqlFail ==
    /\ pc = "read_sql"
    /\ \E e \in {"ConnectionError", "QueryError"} : Raise(e)

\* line 72: df['Volume'] = df['Volume'].astype('float64')
Astype ==
    /\ pc = "astype"
    /\ ~AstypeRaises(df)
    /\ df' = [i \in 1..Len(df) |-> AstypeVolume(df[i])]
    /\ pc' = "fillna"
    /\ UNCHANGED <<sources, vendor_cleaned, err, stdout>>

AstypeFail ==
    /\ pc = "astype"
    /\ AstypeRaises(df)
    /\ Raise("ValueError")

\* line 75: df.fillna(0, inplace=True)
Fillna ==
    /\ pc = "fillna"
    /\ df' = [i \in 1..Len(df) |-> FillnaRow(df[i])]
    /\ pc' = "strip"
    /\ UNCHANGED <<sources, vendor_cleaned, err, stdout>>

\* line 77: df['VendorName'] = df['VendorName'].str.strip()
StripVendorName ==
    /\ pc = "strip"
    /\ df' = [i \in 1..Len(df) |-> StripRow(df[i])]
    /\ pc' = "add_columns"
    /\ UNCHANGED <<sources, vendor_cleaned, err, stdout>>

\* lines 81-84: the four derived columns
AddColumns ==
    /\ pc = "add_columns"
    /\ df' = [i \in 1..Len(df) |-> AddColumnsRow(df[i])]
    /\ pc' = "to_sql"
    /\ UNCHANGED <<sources, vendor_cleaned, err, stdout>>

\* line 86: df.to_sql("vendor_cleaned", engine, if_exists="replace", index=False)
ToSql ==
    /\ pc = "to_sql"
    /\ vendor_cleaned' = ReplaceTable(vendor_cleaned, df)
    /\ pc' = "print"
    /\ UNCHANGED <<sources, df, err, stdout>>

\* the write fails after the old table was dropped, and the drop stays
ToSqlFail_TableDropped ==
    /\ pc = "to_sql"
    /\ pc' = "failed"
    /\ err' = "WriteError"
    /\ vendor_cleaned' = EmptyBag
    /\ UNCHANGED <<sources, df, stdout>>

\* line 86, when the write fails; the store rolls the replace back as a whole
ToSqlFail ==
    /\ pc = "to_sql"
    /\ Raise("WriteError")

\* line 88: print(...)
PrintSuccess ==
    /\ pc = "print"
    /\ stdout' = Append(stdout, SuccessMessage)
    /\ pc' = "done"
    /\ UNCHANGED <<sources, vendor_cleaned, df, err>>

\* The script is started again on the same source tables.
RunAgain ==
    /\ pc \in {"done", "failed"}
    /\ Len(stdout) < MaxRuns
    /\ pc' = "read_sql"
    /\ err' = "none"
    /\ df' = <<>>
    /\ UNCHANGED <<sources, vendor_cleaned, stdout>>

Next ==
    \/ ReadSql
    \/ ReadSqlFail
    \/ Astype
    \/ AstypeFail
    \/ Fillna
    \/ StripVendorName
    \/ AddColumns
    \/ ToSql
    \/ ToSqlFail
    \/ PrintSuccess
    \/ RunAgain

Spec == Init /\ [][Next]_vars

\* ------------------------------------------------------ reading the output
\* After to_sql has returned, vendor_cleaned is the output of the run.
Succeeded == pc \in {"print", "done"}

OutRows == BagToSet(vendor_cleaned)

\* number of rows of vendor_cleaned among the row kinds in R
CountRows(R) == SumFn([o \in R |-> vendor_cleaned[o]])

RowsOf(v, b) == CountRows({o \in OutRows : o.VendorNumber = v /\ o.Brand = b})

\* (VendorNumber, Brand) combinations with a Purchase row of PurchasePrice > 0
ValidCombos ==
    {<<p.VendorNumber, p.Brand>> :
        p \in {q \in BagToSet(purchases) : q.PurchasePrice > 0}}

\* Purchase rows of positive price paired with the reference rows of their brand
PricedPurchases ==
    {j \in BagToSet(purchases) \X BagToSet(purchase_prices) :
        j[1].Brand = j[2].Brand /\ j[1].PurchasePrice > 0}

\* the seven grouping columns of an output row
Identity(o) ==
    <<o.VendorNumber, o.VendorName, o.Brand, o.Description, o.PurchasePrice,
      o.Volume, o.actualprice>>

\* the seven grouping columns of a priced purchase, as stored in the sources
StoredCombo(j) ==
    <<j[1].VendorNumber, j[1].VendorName, j[1].Brand, j[1].Description,
      j[1].PurchasePrice, j[2].Volume, j[2].Price>>

\* ... and as the output shows them: name trimmed, Volume a float
ShownCombo(j) ==
    <<j[1].VendorNumber, Strip(j[1].VendorName), j[1].Brand, j[1].Description,
      j[1].PurchasePrice, ToFloat64(j[2].Volume), j[2].Price>>

HasSale(o) ==
    \E s \in BagToSet(sales) : s.VendorNo = o.VendorNumber /\ s.Brand = o.Brand

HasInvoice(o) ==
    \E i \in BagToSet(vendor_invoice) : i.VendorNumber = o.VendorNumber

\* ------------------------------------------------------------------- C1
\* C1 as stated: after a successful run vendor_cleaned holds exactly one row
\* for every valid (VendorNumber, Brand) combination, and no two rows share a
\* (VendorNumber, Brand).
C1_OneRowPerVendorBrand ==
    Succeeded =>
        /\ \A c \in ValidCombos : RowsOf(c[1], c[2]) = 1
        /\ \A o \in OutRows : RowsOf(o.VendorNumber, o.Brand) = 1

\* C1 amended: after a successful run vendor_cleaned holds exactly one row for
\* every distinct (VendorNumber, VendorName as stored, Brand, Description,
\* PurchasePrice, Volume, ActualPrice) combination among the Purchase rows with
\* PurchasePrice > 0 joined to the reference rows of their Brand, and no other
\* row; so a valid (VendorNumber, Brand) has no row when the reference has no
\* row for the Brand and several rows when it has several such combinations.
C1_OneRowPerGroup ==
    Succeeded =>
        \A id \in {Identity(o) : o \in OutRows} \cup {ShownCombo(j) : j \in PricedPurchases} :
            CountRows({o \in OutRows : Identity(o) = id})
              = Cardinality({StoredCombo(j) : j \in {x \in PricedPurchases : ShownCombo(x) = id}})

C1_Witness ==
    /\ pc = "done"
    /\ \E c \in ValidCombos : RowsOf(c[1], c[2]) >= 2
    /\ \E c \in ValidCombos : RowsOf(c[1], c[2]) = 0

\* ------------------------------------------------------------------- C2
\* C2 as stated (P1): TotalPurchaseDollars of an output row for (V, B) equals
\* the sum of Dollars over all Purchase rows with VendorNumber = V, Brand = B
\* and PurchasePrice > 0.
C2_TotalPerVendorBrand ==
    Succeeded =>
        \A o \in OutRows :
            o.totalpurchasedollars =
                Fin(SumFn([p \in {q \in BagToSet(purchases) :
                                     /\ q.VendorNumber = o.VendorNumber
                                     /\ q.Brand = o.Brand
                                     /\ q.PurchasePrice > 0}
                             |-> purchases[p] * p.Dollars]))

\* C2 amended: for every (VendorNumber, VendorName, Brand, Description,
\* PurchasePrice, Volume, ActualPrice) of the output, the TotalPurchaseDollars
\* of the rows carrying it add up to the sum of Dollars over the Purchase rows
\* with that VendorNumber, trimmed VendorName, Brand, Description and
\* PurchasePrice (> 0), each counted once per reference row with that Brand,
\* Volume and Price.
C2_TotalPerGroup ==
    Succeeded =>
        \A id \in {Identity(o) : o \in OutRows} :
            SumFn([o \in {x \in OutRows : Identity(x) = id}
                     |-> vendor_cleaned[o] * o.totalpurchasedollars.n])
              = SumFn([p \in {q \in BagToSet(purchases) :
                                 /\ q.PurchasePrice > 0
                                 /\ <<q.VendorNumber, Strip(q.VendorName), q.Brand,
                                      q.Description, q.PurchasePrice>>
                                      = <<id[1], id[2], id[3], id[4], id[5]>>}
                         |-> purchases[p] * p.Dollars
                               * SumFn([r \in {x \in BagToSet(purchase_prices) :
                                                  /\ x.Brand = id[3]
                                                  /\ x.Volume \in NumericText
                                                  /\ ToFloat64(x.Volume) = id[6]
                                                  /\ x.Price = id[7]}
                                          |-> purchase_prices[r]])])

C2_Witness ==
    /\ pc = "done"
    /\ \E o \in OutRows : o.totalpurchasedollars.n > 12

\* ------------------------------------------------------------------- C3
\* C3 (P2): after a successful run every output row of vendor V carries the
\* sum of Freight over the Invoice rows of V as FreightCost (0 when V has none),
\* so all rows of V carry the same value.
C3_FreightBroadcast ==
    Succeeded =>
        \A o \in OutRows :
            o.freightcost =
                Fin(SumFn([i \in {x \in BagToSet(vendor_invoice) :
                                     x.VendorNumber = o.VendorNumber}
                             |-> vendor_invoice[i] * i.Freight]))

C3_Witness ==
    /\ pc = "done"
    /\ \E o1, o2 \in OutRows :
          /\ o1 # o2
          /\ o1.VendorNumber = o2.VendorNumber
          /\ o1.freightcost.n > 0

\* ------------------------------------------------------------------- C4
\* C4 (P3): an output row without a matching Sale has the four sales totals 0,
\* an output row whose vendor has no Invoice has FreightCost 0, and none of
\* these five columns is NULL in vendor_cleaned.
C4_NullFill ==
    Succeeded =>
        \A o \in OutRows :
            /\ ~HasSale(o) =>
                  /\ o.totalsalesquantity = Fin(0)
                  /\ o.totalsalesdollars = Fin(0)
                  /\ o.totalsalesprice = Fin(0)
                  /\ o.totalexcisetax = Fin(0)
            /\ ~HasInvoice(o) => o.freightcost = Fin(0)
            /\ \A c \in {"totalsalesquantity", "totalsalesdollars", "totalsalesprice",
                         "totalexcisetax", "freightcost"} : o[c].k = "fin"

C4_Witness ==
    /\ pc = "done"
    /\ \E o \in OutRows : ~HasSale(o) /\ ~HasInvoice(o)

\* ------------------------------------------------------------------- C5
\* C5 (P5): no output row exists for a (VendorNumber, Brand) whose Purchase
\* rows all have PurchasePrice <= 0, and the TotalPurchaseQuantity and
\* TotalPurchaseDollars of the whole output add up to what the Purchase rows
\* with PurchasePrice > 0 alone contribute (each once per joined reference row).
C5_FilterExclusion ==
    Succeeded =>
        /\ \A o \in OutRows :
              /\ <<o.VendorNumber, o.Brand>> \in ValidCombos
              /\ o.PurchasePrice > 0
        /\ SumFn([o \in OutRows |-> vendor_cleaned[o] * o.totalpurchasequantity.n])
             = SumFn([j \in PricedPurchases |->
                        purchases[j[1]] * purchase_prices[j[2]] * j[1].Quantity])
        /\ SumFn([o \in OutRows |-> vendor_cleaned[o] * o.totalpurchasedollars.n])
             = SumFn([j \in PricedPurchases |->
                        purchases[j[1]] * purchase_prices[j[2]] * j[1].Dollars])

C5_Witness ==
    /\ pc = "done"
    /\ OutRows # {}
    /\ \E p \in BagToSet(purchases) :
          /\ p.PurchasePrice <= 0
          /\ \E r \in BagToSet(purchase_prices) : r.Brand = p.Brand
          /\ RowsOf(p.VendorNumber, p.Brand) = 0

\* ------------------------------------------------------------------- C6
\* C6 (P6): every successful write leaves no row of the table held before the
\* first run, and a successful write that follows an earlier successful run on
\* the same sources leaves vendor_cleaned with the same rows as that run did.
C6_IdempotentReplace ==
    [][(pc = "to_sql" /\ pc' = "print") =>
          /\ StaleRow \notin BagToSet(vendor_cleaned')
          /\ (Len(stdout) >= 1 => vendor_cleaned' = vendor_cleaned)]_vars

C6_Witness ==
    /\ pc = "done"
    /\ Len(stdout) = 2
    /\ BagCardinality(vendor_cleaned) >= 2

\* ------------------------------------------------------------------- C7
\* C7: a step that ends the run in failure leaves vendor_cleaned as it was;
\* vendor_cleaned changes only in the step in which to_sql returns, and then
\* it holds exactly the rows of the cleaned frame; the success message is
\* printed only after that step.
C7_NoPartialSuccess ==
    [][/\ (pc' = "failed" => vendor_cleaned' = vendor_cleaned)
       /\ (vendor_cleaned' # vendor_cleaned => pc = "to_sql" /\ pc' = "print")
       /\ (pc = "to_sql" /\ pc' = "print" =>
              /\ BagCardinality(vendor_cleaned') = Len(df)
              /\ \A i \in 1..Len(df) :
                    \E o \in BagToSet(vendor_cleaned') : Identity(o) = Identity(df[i]))
       /\ (stdout' # stdout =>
              /\ pc = "print"
              /\ BagCardinality(vendor_cleaned) = Len(df))]_vars

C7_Witness ==
    /\ pc = "failed"
    /\ err = "ValueError"
    /\ vendor_cleaned = PriorTable

\* ------------------------------------------------------------------- C8
\* C8 (P4): in every output row GrossProfit is TotalSalesDollars minus
\* TotalPurchaseDollars, both finite after the null-fill; a row without a
\* matching Sale has GrossProfit = -TotalPurchaseDollars.
C8_GrossProfit ==
    Succeeded =>
        \A o \in OutRows :
            /\ o.totalsalesdollars.k = "fin" /\ o.totalsalesdollars.d = 1
            /\ o.totalpurchasedollars.k = "fin" /\ o.totalpurchasedollars.d = 1
            /\ o.GrossProfit.k = "fin" /\ o.GrossProfit.d = 1
            /\ o.GrossProfit.n = o.totalsalesdollars.n - o.totalpurchasedollars.n
            /\ ~HasSale(o) => o.GrossProfit.n = -o.totalpurchasedollars.n

C8_Witness ==
    /\ pc = "done"
    /\ \E o \in OutRows : ~HasSale(o) /\ o.totalpurchasedollars.n > 0
    /\ \E o \in OutRows : HasSale(o) /\ o.GrossProfit.n # -o.totalpurchasedollars.n

\* ------------------------------------------------------------------- C9
\* C9: the output has at most as many rows as there are distinct (VendorNumber,
\* Brand, Description, PurchasePrice, Volume, ActualPrice) combinations in the
\* purchases joined to the price reference.
C9_RowCountBound ==
    Succeeded =>
        BagCardinality(vendor_cleaned)
          <= Cardinality({<<j[1].VendorNumber, j[1].Brand, j[1].Description,
                            j[1].PurchasePrice, j[2].Volume, j[2].Price>>
                            : j \in {x \in BagToSet(purchases) \X BagToSet(purchase_prices) :
                                        x[1].Brand = x[2].Brand}})

\* ------------------------------------------------------------------ C10
\* the metric cells of the output whose divisor is 0
ZeroDivisorCells ==
    {o.ProfitMargin : o \in {x \in OutRows : IsZero(x.totalsalesdollars)}}
    \cup {o.StockTurnover : o \in {x \in OutRows : IsZero(x.totalpurchasequantity)}}
    \cup {o.SalesToPurchaseRatio : o \in {x \in OutRows : IsZero(x.totalpurchasedollars)}}

\* C10: in the output of a successful run the metrics whose divisor
\* (TotalSalesDollars, TotalPurchaseQuantity or TotalPurchaseDollars) is 0 all
\* hold one and the same policy value, and none of them is an infinity.
C10_DivisionByZeroHandled ==
    Succeeded =>
        /\ \A c \in ZeroDivisorCells : c.k # "inf"
        /\ Cardinality(ZeroDivisorCells) <= 1

====
